---- MODULE Spec2Model ----
\* Custom emoji / image pack resolution (custom-emoji.js), the RoomProfile
\* save form (RoomProfile) and the RoomSettings visibility toggle
\* (RoomSettings.jsx), as state machines.
\*
\* JavaScript values are tagged records: [t |-> "undefined"], [t |-> "null"],
\* [t |-> "val", ...].  Objects carry their fields beside the tag; strings and
\* arrays are carried in the field v.  An exception that leaves an operation is
\* the value Throw.
EXTENDS Naturals, Sequences, FiniteSets, TLC

VARIABLES
  op,        \* the resolver operation applied last ("none" before the first)
  rawPack,   \* parsePack's argument: a raw image pack event
  room,      \* parsePack's fallback room / the resolver's current room
  mx,        \* the client: account data and loaded rooms
  ret,       \* what the operation returned (or Throw)
  \* RoomProfile
  alive,          \* the component is mounted (in the rendered tree)
  roomId,         \* the roomId prop of the last render
  effectRoomId,   \* the roomId of the render whose effect ran last and is not
                  \* cleaned up: the one the registered handleProfileUpdate
                  \* closes over; "none" when no effect is set up
  isMountStore,   \* what isMountStore.getItem() returns
  status,         \* the value last given to setStatus
  isEditing,      \* the value last given to setIsEditing
  canChangeName,  \* currentState.maySendStateEvent('m.room.name', userId)
  canChangeTopic, \* currentState.maySendStateEvent('m.room.topic', userId)
  roomName,       \* room.name
  calls,          \* the handleOnSubmit calls, in the order they were made
  avatarUpload,   \* the last handleAvatarUpload call: "idle" (none, or it has
                  \* returned), "sendStateEvent" (awaiting), "rejected"
  \* RoomSettings
  settings        \* the RoomSettings instances, in the order they were mounted:
                  \* each one's effect closure, pending timeouts and the
                  \* number of calls of its forceUpdate

resolverVars == <<op, rawPack, room, mx, ret>>

profileVars ==
  <<alive, roomId, effectRoomId, isMountStore, status, isEditing,
    canChangeName, canChangeTopic, roomName, calls, avatarUpload>>

settingsVars == <<settings>>

vars == <<resolverVars, profileVars, settingsVars>>

----------------------------------------------------------------------------
\* Bounds

\* most image entries in the images mapping of a parsed pack event
MaxImages == 2

\* most handleOnSubmit calls in one behaviour
MaxCalls == 2

\* most RoomSettings instances mounted in one behaviour
MaxMounts == 2

\* most timeouts of one RoomSettings instance pending at a time
MaxTimers == 2

\* most forceUpdate calls of one RoomSettings instance in one behaviour
MaxUpdates == 3

----------------------------------------------------------------------------
\* JavaScript values

Undefined == [t |-> "undefined"]
Null == [t |-> "null"]
Val(v) == [t |-> "val", v |-> v]
Throw == [t |-> "throw"]

\* a ?? b
Coalesce(a, b) == IF a.t \in {"undefined", "null"} THEN b ELSE a

\* truthiness of a string-or-missing value
Truthy(s) == s.t = "val" /\ s.v # ""

\* Array.prototype.indexOf, 1-based; 0 stands for -1
IndexOf(s, x) ==
  IF \E i \in 1..Len(s) : s[i] = x
  THEN CHOOSE i \in 1..Len(s) : s[i] = x /\ \A j \in 1..(i - 1) : s[j] # x
  ELSE 0

RECURSIVE Flatten(_)
Flatten(ss) == IF ss = <<>> THEN <<>> ELSE Head(ss) \o Flatten(Tail(ss))

Reverse(s) == [i \in 1..Len(s) |-> s[Len(s) + 1 - i]]

----------------------------------------------------------------------------
\* ImagePack.parsePack

DefaultUsage == Val(<<"emoticon", "sticker">>)

EmptyPack ==
  [t |-> "val", display_name |-> Undefined, avatar_url |-> Undefined,
   usage |-> Undefined, attribution |-> Undefined]

\* the body default is left out
ParseImageNoBodyDefault(e, usage) ==
  [shortcode |-> e.shortcode,
   mxc |-> e.data.url,
   body |-> e.data.body,
   info |-> e.data.info,
   usage |-> Coalesce(e.data.usage, usage)]

\* one element of the flatMap callback's result, for an entry that has a url
ParseImage(e, usage) ==
  [shortcode |-> e.shortcode,
   mxc |-> e.data.url,
   body |-> Coalesce(e.data.body, Val(e.shortcode)),
   info |-> e.data.info,
   usage |-> Coalesce(e.data.usage, usage)]

\* the property names of a string: its indices
IndexKey(i) == <<"0", "1">>[i]

\* Object.entries of a value that is neither undefined nor null: the entries
\* of a mapping, the characters of a string by index, nothing of a number or
\* a boolean
ObjectEntries(value) ==
  IF value.t = "val" THEN value.v
  ELSE IF value.t = "string"
  THEN [i \in 1..Len(value.chars) |->
          [shortcode |-> IndexKey(i),
           data |-> [t |-> "string", chars |-> <<value.chars[i]>>]]]
  ELSE <<>>

\* data.url: undefined on a string, which has no such property
Url(data) == IF data.t = "val" THEN data.url ELSE Undefined

\* lines 29-51: the pack built from an event whose images are defined
BuildPack(rawPack_, room_) ==
  LET pack == Coalesce(rawPack_.content.pack, EmptyPack)
      displayName ==
        Coalesce(pack.display_name,
                 IF room_.t = "val" THEN room_.name ELSE Undefined)
      avatar ==
        Coalesce(pack.avatar_url,
                 IF room_.t = "val" THEN room_.mxcAvatarUrl ELSE Undefined)
      usage == Coalesce(pack.usage, DefaultUsage)
      entries == ObjectEntries(rawPack_.content.images)
      kept == SelectSeq(entries, LAMBDA e : Truthy(Url(e.data)))
  IN IF \E i \in 1..Len(entries) : entries[i].data.t \in {"null", "undefined"}
     THEN Throw                                  \* data.url of null
     ELSE [t |-> "ImagePack",
           displayName |-> displayName,
           avatar |-> avatar,
           usage |-> usage,
           attribution |-> pack.attribution,
           images |-> [i \in 1..Len(kept) |-> ParseImage(kept[i], usage)],
           event |-> rawPack_]

parsePack(rawPack_, room_) ==
  IF rawPack_.content.t # "val" THEN Throw      \* rawPack.content.images of no content
  ELSE IF rawPack_.content.images.t = "undefined" THEN Null
  ELSE IF rawPack_.content.images.t = "null" THEN Throw   \* Object.entries(null)
  ELSE BuildPack(rawPack_, room_)

\* ImagePack.getEmojis
getEmojis(pack) ==
  SelectSeq(pack.images, LAMBDA i : IndexOf(i.usage.v, "emoticon") # 0)

----------------------------------------------------------------------------
\* Inputs of parsePack

Shortcodes == {"smile", "happy", "x"}

ImageData ==
  {Null} \cup
  [t : {"val"},
   url : {Undefined, Val(""), Val("mxc://a")},
   body : {Undefined, Val("Body")},
   info : {Undefined},
   usage : {Undefined, Val(<<"sticker">>)}]

ImageEntries == [shortcode : Shortcodes, data : ImageData]

\* the entries of an object: no key twice
DistinctKeys(es) ==
  \A i, j \in 1..Len(es) : es[i].shortcode = es[j].shortcode => i = j

ImageMappings ==
  UNION {{es \in [1..n -> ImageEntries] : DistinctKeys(es)} : n \in 0..MaxImages}

PackInfos ==
  {Undefined} \cup
  [t : {"val"},
   display_name : {Undefined, Val("Pack")},
   avatar_url : {Undefined},
   usage : {Undefined, Val(<<"emoticon">>)},
   attribution : {Undefined}]

\* images that are no mapping: 5, true, "ab"
NonMappings ==
  {[t |-> "number", n |-> 5], [t |-> "boolean", b |-> TRUE],
   [t |-> "string", chars |-> <<"a", "b">>]}

PackContents ==
  {Undefined} \cup
  [t : {"val"}, pack : {Undefined}, images : {Undefined, Null}] \cup
  [t : {"val"}, pack : {Undefined}, images : NonMappings] \cup
  [t : {"val"}, pack : PackInfos, images : {Val(m) : m \in ImageMappings}]

RawPacks ==
  [event_id : {Val("$ev")}, state_key : {Val("k1")}, content : PackContents]

FallbackRooms ==
  {Undefined,
   [t |-> "val", roomId |-> "!r1", name |-> Val("Room"),
    mxcAvatarUrl |-> Val("mxc://room"), stateEvents |-> <<>>]}

RoomIds == {"!r1", "!r2"}

NoClient ==
  [userEmotes |-> Undefined, emoteRooms |-> Undefined,
   rooms |-> [r \in RoomIds |-> Null]]

----------------------------------------------------------------------------
\* The standard emoji table (./emoji): an ordered list; every emoji has its
\* first shortcode in `shortcode` and all of them in `shortcodes`, which is an
\* array or, for a single alias, a string.

emojis ==
  << [shortcode |-> "smile", unicode |-> "U+1F604",
      shortcodes |-> [t |-> "array", v |-> <<"smile", "happy">>]],
     [shortcode |-> "cat", unicode |-> "U+1F431",
      shortcodes |-> [t |-> "string", v |-> "cat"]],
     [shortcode |-> "sun", unicode |-> "U+2600",
      shortcodes |-> [t |-> "array", v |-> <<"sun">>]] >>

----------------------------------------------------------------------------
\* A JavaScript Map: its entries in insertion order

MapHas(m, k) == \E i \in 1..Len(m) : m[i].key = k

MapGet(m, k) == m[CHOOSE i \in 1..Len(m) : m[i].key = k].value

\* Map.prototype.set: a key already present keeps its place
MapSet(m, k, v) ==
  IF MapHas(m, k)
  THEN [i \in 1..Len(m) |-> IF m[i].key = k THEN [key |-> k, value |-> v] ELSE m[i]]
  ELSE Append(m, [key |-> k, value |-> v])

RECURSIVE MapSetAll(_, _)
MapSetAll(m, kvs) ==
  IF kvs = <<>> THEN m
  ELSE MapSetAll(MapSet(m, Head(kvs).key, Head(kvs).value), Tail(kvs))

MapValues(m) == [i \in 1..Len(m) |-> m[i].value]

----------------------------------------------------------------------------
\* The resolver

getUserImagePack(mx_) ==
  IF mx_.userEmotes.t # "val" THEN Null
  ELSE LET userImagePack == parsePack(mx_.userEmotes.event, Undefined)
       IN IF userImagePack.t = "ImagePack"
          THEN [userImagePack EXCEPT !.displayName = Coalesce(@, Val("Your Emoji"))]
          ELSE userImagePack

getPacksInRoom(room_) ==
  LET packs == room_.stateEvents
      parsed == [i \in 1..Len(packs) |-> parsePack(packs[i], room_)]
  IN IF \E i \in 1..Len(parsed) : parsed[i] = Throw
     THEN Throw
     ELSE Val(SelectSeq(parsed, LAMBDA p : p # Null))

\* the packs of the room are not filtered by the enabled keys
PacksOfEmoteRoomUnfiltered(mx_, e) ==
  IF e.keyObjects.t # "val" THEN Throw
  ELSE LET r == mx_.rooms[e.roomId]
       IN IF r.t = "val" THEN getPacksInRoom(r) ELSE Val(<<>>)

\* the flatMap callback of getFromImagePackRooms
PacksOfEmoteRoom(mx_, e) ==
  IF e.keyObjects.t # "val" THEN Throw           \* Object.keys(null)
  ELSE LET r == mx_.rooms[e.roomId]
       IN IF r.t = "val"
          THEN LET packs == getPacksInRoom(r)
               IN IF packs = Throw THEN Throw
                  ELSE Val(SelectSeq(packs.v,
                         LAMBDA pack :
                           /\ pack.event.state_key.t = "val"
                           /\ IndexOf(e.keyObjects.keys, pack.event.state_key.v) # 0))
          ELSE Val(<<>>)

NoEmoteRooms == [t |-> "val", event |-> [content |-> [t |-> "val", rooms |-> Undefined]]]

getFromImagePackRooms(mx_) ==
  LET accountDataEvent == Coalesce(mx_.emoteRooms, NoEmoteRooms)
      eventContent == accountDataEvent.event.content
      emoteRooms == Coalesce(eventContent.rooms, Val(<<>>))
      perRoom == [i \in 1..Len(emoteRooms.v) |-> PacksOfEmoteRoom(mx_, emoteRooms.v[i])]
  IN IF \E i \in 1..Len(perRoom) : perRoom[i] = Throw
     THEN Throw
     ELSE Val(Flatten([i \in 1..Len(perRoom) |-> perRoom[i].v]))

LastIndexOf(s, x) ==
  IF \E i \in 1..Len(s) : s[i] = x
  THEN CHOOSE i \in 1..Len(s) : s[i] = x /\ \A j \in (i + 1)..Len(s) : s[j] # x
  ELSE 0

\* the last occurrence of an event id is kept, not the first
DeduplicateKeepingLast(packs) ==
  LET events == [i \in 1..Len(packs) |-> packs[i].event.event_id]
      indexed == [i \in 1..Len(packs) |-> [indx |-> i, pack |-> packs[i]]]
      kept == SelectSeq(indexed, LAMBDA x : LastIndexOf(events, events[x.indx]) = x.indx)
  IN [i \in 1..Len(kept) |-> kept[i].pack]

\* packs.filter((pack, indx) => events.indexOf(pack.event.event_id) === indx)
Deduplicate(packs) ==
  LET events == [i \in 1..Len(packs) |-> packs[i].event.event_id]
      indexed == [i \in 1..Len(packs) |-> [indx |-> i, pack |-> packs[i]]]
      kept == SelectSeq(indexed, LAMBDA x : IndexOf(events, events[x.indx]) = x.indx)
  IN [i \in 1..Len(kept) |-> kept[i].pack]

\* [].concat(user ?? [], inRoom, fromRooms)
ConcatPacks(user, inRoom, fromRooms) ==
  (IF user = Null THEN <<>> ELSE <<user>>) \o inRoom \o fromRooms

getRelevantPacks(mx_, room_) ==
  LET user == getUserImagePack(mx_)
      inRoom == getPacksInRoom(room_)
      fromRooms == getFromImagePackRooms(mx_)
  IN IF user = Throw \/ inRoom = Throw \/ fromRooms = Throw
     THEN Throw
     ELSE Val(Deduplicate(ConcatPacks(user, inRoom.v, fromRooms.v)))

\* the standard emoji keyed by every alias, in the order they are set
StandardEntries ==
  Flatten([n \in 1..Len(emojis) |->
    LET emoji == emojis[n]
    IN IF emoji.shortcodes.t = "array"
       THEN [i \in 1..Len(emoji.shortcodes.v) |->
               [key |-> emoji.shortcodes.v[i], value |-> emoji]]
       ELSE << [key |-> emoji.shortcodes.v, value |-> emoji] >>])

\* the packs are overlaid in priority order, not in reverse
CustomEntriesNotReversed(packs) ==
  LET custom == Flatten([i \in 1..Len(packs) |-> getEmojis(packs[i])])
  IN [i \in 1..Len(custom) |-> [key |-> custom[i].shortcode, value |-> custom[i]]]

\* getRelevantPacks(room).reverse().flatMap((pack) => pack.getEmojis()),
\* each with the key it is set under
CustomEntries(packs) ==
  LET reversed == Reverse(packs)
      custom == Flatten([i \in 1..Len(reversed) |-> getEmojis(reversed[i])])
  IN [i \in 1..Len(custom) |-> [key |-> custom[i].shortcode, value |-> custom[i]]]

getShortcodeToEmoji(mx_, room_) ==
  LET packs == getRelevantPacks(mx_, room_)
  IN IF packs = Throw THEN Throw
     ELSE Val(MapSetAll(MapSetAll(<<>>, StandardEntries), CustomEntries(packs.v)))

\* the shadowed standard emoji are not filtered out
getEmojiForCompletionUnfiltered(mx_, room_) ==
  LET packs == getRelevantPacks(mx_, room_)
      allEmoji == MapSetAll(<<>>, CustomEntries(packs.v))
  IN IF packs = Throw THEN Throw
     ELSE Val(emojis \o MapValues(allEmoji))

getEmojiForCompletion(mx_, room_) ==
  LET packs == getRelevantPacks(mx_, room_)
      allEmoji == MapSetAll(<<>>, CustomEntries(packs.v))
  IN IF packs = Throw THEN Throw
     ELSE Val(SelectSeq(emojis, LAMBDA e : ~MapHas(allEmoji, e.shortcode))
              \o MapValues(allEmoji))

----------------------------------------------------------------------------
\* RoomProfile

PRE_FLIGHT == "PRE_FLIGHT"
IN_FLIGHT == "IN_FLIGHT"
SUCCESS == "SUCCESS"
ERROR == "ERROR"

PreFlight == [msg |-> Null, type |-> PRE_FLIGHT]

ProfileRooms == {"!a", "!b"}

\* the values of the name and topic inputs; the topic is not set on the room
RoomNames == {"Old", " "}
NewNames == {"Old", "New"}
roomTopic == Undefined
NewTopics == {Undefined, Val("Topic")}

\* err.message of a failed call
ErrorMessages == {Undefined, Val(""), Val("M_FORBIDDEN")}

\* String.prototype.trim on the names above
Trim(str) == IF str = " " THEN "" ELSE str

\* no RoomSettings is rendered
NoSettings == settings = <<>>

\* no effect of RoomProfile is set up
NoEffect == "none"

\* no RoomProfile is rendered
NoProfile ==
  /\ alive = FALSE
  /\ roomId = "!a"
  /\ effectRoomId = NoEffect
  /\ isMountStore = FALSE
  /\ status = PreFlight
  /\ isEditing = FALSE
  /\ canChangeName = FALSE
  /\ canChangeTopic = FALSE
  /\ roomName = "Old"
  /\ calls = <<>>
  /\ avatarUpload = "idle"

\* after the first render and its effect
InitProfile ==
  /\ op = "none"
  /\ rawPack = Undefined
  /\ room = Undefined
  /\ mx = NoClient
  /\ ret = Undefined
  /\ alive = TRUE
  /\ roomId \in ProfileRooms
  /\ effectRoomId = roomId
  /\ isMountStore = TRUE
  /\ status = PreFlight
  /\ isEditing = FALSE
  /\ canChangeName \in BOOLEAN
  /\ canChangeTopic \in BOOLEAN
  /\ roomName \in RoomNames
  /\ calls = <<>>
  /\ avatarUpload = "idle"
  /\ NoSettings

\* the mount guard always lets through
getItemAlwaysTrue == TRUE

\* isMountStore.getItem()
getItem == isMountStore

\* the status after `if (isMountStore.getItem()) setStatus(s)`
GuardedStatus(s) == IF getItem THEN s ELSE status

\* a render with another roomId is committed and its effect has not run yet
EffectPending == alive /\ effectRoomId # roomId

\* `if (isMountStore.getItem()) setStatus(s)` after an await, and the render
\* the setStatus brings: a pending effect is run before that render, and what
\* its cleanup gives to setStatus and setIsEditing is what is rendered
SetStatus(s) ==
  IF getItem /\ EffectPending
  THEN /\ status' = PreFlight
       /\ isEditing' = FALSE
       /\ isMountStore' = TRUE
       /\ effectRoomId' = roomId
  ELSE /\ status' = GuardedStatus(s)
       /\ UNCHANGED <<isEditing, isMountStore, effectRoomId>>

SavingName == [msg |-> Val("Saving room name..."), type |-> IN_FLIGHT]
SavingTopic == [msg |-> Val("Saving room topic..."), type |-> IN_FLIGHT]
Saved == [msg |-> Val("Saved successfully"), type |-> SUCCESS]
Failed(message) ==
  [msg |-> IF Truthy(message) THEN message ELSE Val("Unable to save."),
   type |-> ERROR]

\* a handleOnSubmit call at an await: the room of the render it closes over,
\* whether the topic is still to be saved, and the call it awaits
Call(rid, saveTopic, pc) == [room |-> rid, saveTopic |-> saveTopic, pc |-> pc]

\* a handleOnSubmit call that has returned ("done") or has run its catch block
\* ("caught"), and whether its last status was given to setStatus
Settled(pc, applied) == [pc |-> pc, applied |-> applied]

InFlight(i) == calls[i].pc \in {"setRoomName", "setRoomTopic"}

\* lines 84-100, from the topic on
TopicStep(i, rid, saveTopic) ==
  IF saveTopic
  THEN /\ SetStatus(SavingTopic)
       /\ calls' = [calls EXCEPT ![i] = Call(rid, FALSE, "setRoomTopic")]
  ELSE /\ SetStatus(Saved)
       /\ calls' = [calls EXCEPT ![i] = Settled("done", getItem)]

\* the form is submitted: handleOnSubmit up to its first await, or to its end.
\* The form is on screen once a pending effect has run: React runs it before
\* it hands a click to a handler, and its cleanup closes the form.
Submit ==
  /\ alive /\ isEditing /\ status.type # IN_FLIGHT
  /\ ~EffectPending
  /\ Len(calls) < MaxCalls
  /\ \E newName \in NewNames, newTopic \in NewTopics :
       LET saveName == canChangeName /\ newName # roomName /\ Trim(roomName) # ""
           saveTopic == canChangeTopic /\ newTopic # roomTopic
       IN IF saveName
          THEN /\ status' = SavingName
               /\ calls' = Append(calls, Call(roomId, saveTopic, "setRoomName"))
          ELSE IF saveTopic
          THEN /\ status' = GuardedStatus(SavingTopic)
               /\ calls' = Append(calls, Call(roomId, FALSE, "setRoomTopic"))
          ELSE /\ status' = GuardedStatus(Saved)
               /\ calls' = Append(calls, Settled("done", getItem))
  /\ UNCHANGED <<alive, roomId, effectRoomId, isMountStore, isEditing,
                 canChangeName, canChangeTopic, roomName, avatarUpload,
                 resolverVars, settingsVars>>

\* mx.setRoomName resolves
NameSaved ==
  /\ \E i \in 1..Len(calls) :
       /\ calls[i].pc = "setRoomName"
       /\ TopicStep(i, calls[i].room, calls[i].saveTopic)
  /\ UNCHANGED <<alive, roomId, canChangeName, canChangeTopic, roomName,
                 avatarUpload, resolverVars, settingsVars>>

\* mx.setRoomTopic resolves
TopicSaved ==
  /\ \E i \in 1..Len(calls) :
       /\ calls[i].pc = "setRoomTopic"
       /\ SetStatus(Saved)
       /\ calls' = [calls EXCEPT ![i] = Settled("done", getItem)]
  /\ UNCHANGED <<alive, roomId, canChangeName, canChangeTopic, roomName,
                 avatarUpload, resolverVars, settingsVars>>

\* mx.setRoomName or mx.setRoomTopic rejects: the catch block
SaveFailed ==
  /\ \E i \in 1..Len(calls), message \in ErrorMessages :
       /\ InFlight(i)
       /\ SetStatus(Failed(message))
       /\ calls' = [calls EXCEPT ![i] = Settled("caught", getItem)]
  /\ UNCHANGED <<alive, roomId, canChangeName, canChangeTopic, roomName,
                 avatarUpload, resolverVars, settingsVars>>

\* the pencil button: React runs a pending effect before it hands the click to
\* the handler, so that setIsEditing(true) comes after the cleanup
StartEditing ==
  /\ alive /\ ~isEditing
  /\ canChangeName \/ canChangeTopic
  /\ isEditing' = TRUE
  /\ IF EffectPending
     THEN /\ status' = PreFlight
          /\ isMountStore' = TRUE
          /\ effectRoomId' = roomId
     ELSE UNCHANGED <<status, isMountStore, effectRoomId>>
  /\ UNCHANGED <<alive, roomId, canChangeName, canChangeTopic, roomName, calls,
                 avatarUpload, resolverVars, settingsVars>>

\* the Cancel button of the form, on screen once a pending effect has run
handleCancelEditing ==
  /\ alive /\ isEditing /\ status.type # IN_FLIGHT
  /\ ~EffectPending
  /\ status' = PreFlight
  /\ isEditing' = FALSE
  /\ UNCHANGED <<alive, roomId, effectRoomId, isMountStore, canChangeName,
                 canChangeTopic, roomName, calls, avatarUpload, resolverVars,
                 settingsVars>>

\* the roomId prop changes: the render with the new roomId is committed and
\* its effect is scheduled.  An effect still pending from the render before is
\* run first.
RoomChanged ==
  /\ alive
  /\ \E rid \in ProfileRooms \ {roomId} : roomId' = rid
  /\ \E name \in BOOLEAN, topic \in BOOLEAN, current \in RoomNames :
       /\ canChangeName' = name
       /\ canChangeTopic' = topic
       /\ roomName' = current
  /\ IF EffectPending
     THEN /\ status' = PreFlight
          /\ isEditing' = FALSE
          /\ isMountStore' = TRUE
          /\ effectRoomId' = roomId
     ELSE UNCHANGED <<status, isEditing, isMountStore, effectRoomId>>
  /\ UNCHANGED <<alive, calls, avatarUpload, resolverVars, settingsVars>>

\* the scheduled effect runs: the cleanup of the effect before (the listener
\* removed, setItem(false), setStatus, setIsEditing), then the effect of the
\* render shown (setItem(true), the listener of its roomId)
Effect ==
  /\ EffectPending
  /\ isMountStore' = TRUE
  /\ status' = PreFlight
  /\ isEditing' = FALSE
  /\ effectRoomId' = roomId
  /\ UNCHANGED <<alive, roomId, canChangeName, canChangeTopic, roomName, calls,
                 avatarUpload, resolverVars, settingsVars>>

\* roomList emits ROOM_PROFILE_UPDATED(rId) while a listener is registered:
\* handleProfileUpdate returns when rId is not the roomId it closes over, and
\* otherwise calls forceUpdate.  On a mounted component a pending effect is
\* run before the render, which reads room.name and the permissions anew; a
\* removed component is not rendered.
handleProfileUpdate ==
  /\ effectRoomId # NoEffect
  /\ \E rId \in ProfileRooms :
       IF effectRoomId # rId \/ ~alive
       THEN UNCHANGED <<canChangeName, canChangeTopic, roomName, status,
                        isEditing, isMountStore, effectRoomId>>
       ELSE /\ \E name \in BOOLEAN, topic \in BOOLEAN, current \in RoomNames :
                 /\ canChangeName' = name
                 /\ canChangeTopic' = topic
                 /\ roomName' = current
            /\ IF EffectPending
               THEN /\ status' = PreFlight
                    /\ isEditing' = FALSE
                    /\ isMountStore' = TRUE
                    /\ effectRoomId' = roomId
               ELSE UNCHANGED <<status, isEditing, isMountStore, effectRoomId>>
  /\ UNCHANGED <<alive, roomId, calls, avatarUpload, resolverVars,
                 settingsVars>>

\* the component is removed from the tree: the commit that removes it runs a
\* pending effect first; the cleanup of the effect set up last is scheduled
\* and has not run yet
Unmount ==
  /\ alive
  /\ alive' = FALSE
  /\ IF EffectPending
     THEN /\ status' = PreFlight
          /\ isEditing' = FALSE
          /\ isMountStore' = TRUE
          /\ effectRoomId' = roomId
     ELSE UNCHANGED <<status, isEditing, isMountStore, effectRoomId>>
  /\ UNCHANGED <<roomId, canChangeName, canChangeTopic, roomName, calls,
                 avatarUpload, resolverVars, settingsVars>>

\* the scheduled cleanup of the removed component runs: the listener is
\* removed, setItem(false), setStatus(PRE_FLIGHT), setIsEditing(false)
UnmountCleanup ==
  /\ ~alive
  /\ effectRoomId # NoEffect
  /\ effectRoomId' = NoEffect
  /\ isMountStore' = FALSE
  /\ status' = PreFlight
  /\ isEditing' = FALSE
  /\ UNCHANGED <<alive, roomId, canChangeName, canChangeTopic, roomName, calls,
                 avatarUpload, resolverVars, settingsVars>>

\* handleAvatarUpload(url) up to its await; a removal that is not confirmed
\* sends nothing.  The removal (url null) comes of a click, before which React
\* runs a pending effect; an upload comes of ImageUpload's own request.
handleAvatarUpload ==
  /\ alive
  /\ avatarUpload # "sendStateEvent"
  /\ \E url \in {Null, Val("mxc://avatar")}, confirmed \in BOOLEAN :
       /\ avatarUpload' = IF url = Null /\ ~confirmed THEN "idle"
                          ELSE "sendStateEvent"
       /\ IF url = Null /\ EffectPending
          THEN /\ status' = PreFlight
               /\ isEditing' = FALSE
               /\ isMountStore' = TRUE
               /\ effectRoomId' = roomId
          ELSE UNCHANGED <<status, isEditing, isMountStore, effectRoomId>>
  /\ UNCHANGED <<alive, roomId, canChangeName, canChangeTopic, roomName, calls,
                 resolverVars, settingsVars>>

\* mx.sendStateEvent resolves
AvatarSent ==
  /\ avatarUpload = "sendStateEvent"
  /\ avatarUpload' = "idle"
  /\ UNCHANGED <<alive, roomId, effectRoomId, isMountStore, status, isEditing,
                 canChangeName, canChangeTopic, roomName, calls, resolverVars,
                 settingsVars>>

\* mx.sendStateEvent rejects: nothing catches it, the handler's promise rejects
AvatarFailed ==
  /\ avatarUpload = "sendStateEvent"
  /\ avatarUpload' = "rejected"
  /\ UNCHANGED <<alive, roomId, effectRoomId, isMountStore, status, isEditing,
                 canChangeName, canChangeTopic, roomName, calls, resolverVars,
                 settingsVars>>

NextProfile ==
  \/ Submit
  \/ NameSaved
  \/ TopicSaved
  \/ SaveFailed
  \/ StartEditing
  \/ handleCancelEditing
  \/ RoomChanged
  \/ Effect
  \/ handleProfileUpdate
  \/ Unmount
  \/ UnmountCleanup
  \/ handleAvatarUpload
  \/ AvatarSent
  \/ AvatarFailed

SpecProfile == InitProfile /\ [][NextProfile]_vars

----------------------------------------------------------------------------
\* RoomSettings: the effect that listens to ROOM_SETTINGS_TOGGLED

\* a RoomSettings instance after its first render and its effect:
\* let mounted = true; navigation.on(ROOM_SETTINGS_TOGGLED, settingsToggle)
Mounted ==
  [mounted |-> TRUE, listening |-> TRUE, timers |-> 0, forceUpdates |-> 0]

\* forceUpdate() of an instance
forceUpdate(inst) == [inst EXCEPT !.forceUpdates = @ + 1]

\* setTimeout(() => forceUpdate(), 200) by an instance
setTimeout(inst) == [inst EXCEPT !.timers = @ + 1]

\* settingsToggle(isVisible) in the closure of an instance
settingsToggle(inst, isVisible) ==
  IF ~inst.mounted THEN inst
  ELSE IF isVisible THEN forceUpdate(inst)
  ELSE setTimeout(inst)

\* the effect's cleanup
Cleanup(inst) == [inst EXCEPT !.mounted = FALSE, !.listening = FALSE]

\* the counters of an instance are within the bounds
WithinBounds(inst) ==
  /\ inst.timers <= MaxTimers
  /\ inst.forceUpdates <= MaxUpdates

\* the instance on screen, 0 when there is none
Current ==
  IF settings # <<>> /\ settings[Len(settings)].listening
  THEN Len(settings) ELSE 0

InitSettings ==
  /\ op = "none"
  /\ rawPack = Undefined
  /\ room = Undefined
  /\ mx = NoClient
  /\ ret = Undefined
  /\ NoProfile
  /\ settings = <<Mounted>>

\* RoomSettings is rendered anew
Mount ==
  /\ Current = 0
  /\ Len(settings) < MaxMounts
  /\ settings' = Append(settings, Mounted)
  /\ UNCHANGED <<resolverVars, profileVars>>

\* navigation emits ROOM_SETTINGS_TOGGLED: every registered listener is called
SettingsToggled ==
  /\ Current # 0
  /\ \E isVisible \in BOOLEAN :
       settings' = [i \in 1..Len(settings) |->
                      IF settings[i].listening
                      THEN settingsToggle(settings[i], isVisible)
                      ELSE settings[i]]
  /\ \A i \in 1..Len(settings) : WithinBounds(settings'[i])
  /\ UNCHANGED <<resolverVars, profileVars>>

\* a timeout of some instance is due: () => forceUpdate()
TimerFired ==
  /\ \E i \in 1..Len(settings) :
       /\ settings[i].timers > 0
       /\ settings' = [settings EXCEPT
                         ![i] = forceUpdate([@ EXCEPT !.timers = @ - 1])]
       /\ WithinBounds(settings'[i])
  /\ UNCHANGED <<resolverVars, profileVars>>

\* RoomSettings is torn down: the effect's cleanup
UnmountSettings ==
  /\ Current # 0
  /\ settings' = [settings EXCEPT ![Current] = Cleanup(@)]
  /\ UNCHANGED <<resolverVars, profileVars>>

NextSettings ==
  \/ Mount
  \/ SettingsToggled
  \/ TimerFired
  \/ UnmountSettings

SpecSettings == InitSettings /\ [][NextSettings]_vars

----------------------------------------------------------------------------
\* Client states the resolver is applied to

StateKeys == {"k1", "k2"}

EventId(rid, key) ==
  IF rid = "!r1"
  THEN (IF key = "k1" THEN "$r1k1" ELSE "$r1k2")
  ELSE (IF key = "k1" THEN "$r2k1" ELSE "$r2k2")

MxcOf(rid, key) ==
  IF rid = "!r1"
  THEN (IF key = "k1" THEN "mxc://r1k1" ELSE "mxc://r1k2")
  ELSE (IF key = "k1" THEN "mxc://r2k1" ELSE "mxc://r2k2")

StateEvent(rid, key, content) ==
  [event_id |-> Val(EventId(rid, key)), state_key |-> Val(key), content |-> content]

\* account data has no event id and no state key
AccountData(content) ==
  [t |-> "val",
   event |-> [event_id |-> Undefined, state_key |-> Undefined, content |-> content]]

Image(url, usage) ==
  [t |-> "val", url |-> Val(url), body |-> Undefined, info |-> Undefined,
   usage |-> usage]

Content(images) == [t |-> "val", pack |-> Undefined, images |-> images]

\* an event of the pack type that is no pack, and a pack of one emoji
SimpleContents(url) ==
  {Content(Undefined),
   Content(Val(<< [shortcode |-> "x", data |-> Image(url, Undefined)] >>))}

\* what a pack says of one shortcode
ImageKinds == {"absent", "emoticon", "sticker"}

ShortcodeOrder == <<"smile", "happy", "x">>

ImagesOfKinds(kinds, url) ==
  LET present == SelectSeq(ShortcodeOrder, LAMBDA sc : kinds[sc] # "absent")
  IN [i \in 1..Len(present) |->
        [shortcode |-> present[i],
         data |-> Image(url, IF kinds[present[i]] = "sticker"
                             THEN Val(<<"sticker">>) ELSE Undefined)]]

\* well-formed packs of every kind, and the malformed ones
RichContents(url) ==
  {Content(Val(ImagesOfKinds(kinds, url))) : kinds \in [Shortcodes -> ImageKinds]}
  \cup {Content(Undefined), Content(Null),
        Content(Val(<< [shortcode |-> "x", data |-> Null] >>))}

Room(rid, events) ==
  [t |-> "val", roomId |-> rid, name |-> Val(rid),
   mxcAvatarUrl |-> Undefined, stateEvents |-> events]

\* the plain pack events a room may hold
PackEventsOf(rid) ==
  UNION {{StateEvent(rid, k, c) : c \in SimpleContents(MxcOf(rid, k))} : k \in StateKeys}

\* the pack events of a room, in any order, one to a state key
RoomStates(rid) ==
  UNION {
    {es \in [1..n -> PackEventsOf(rid)] :
       \A i, j \in 1..n : es[i].state_key = es[j].state_key => i = j}
    : n \in 0..Cardinality(StateKeys)}

KeyObjects ==
  {Null,
   [t |-> "val", keys |-> <<>>],
   [t |-> "val", keys |-> <<"k1">>],
   [t |-> "val", keys |-> <<"k1", "k2">>]}

EmoteRoomEntries == [roomId : RoomIds, keyObjects : KeyObjects]

EmoteRooms(rooms) ==
  [t |-> "val", event |-> [content |-> [t |-> "val", rooms |-> rooms]]]

EmoteRoomsData ==
  {Undefined, EmoteRooms(Undefined)} \cup
  {EmoteRooms(Val(es)) :
     es \in UNION {{x \in [1..n -> EmoteRoomEntries] :
                      \A i, j \in 1..n : x[i].roomId = x[j].roomId => i = j}
                   : n \in 0..Cardinality(RoomIds)}}

SimpleRooms ==
  UNION {{Room(rid, es) : es \in RoomStates(rid)} : rid \in RoomIds}

\* many rooms, packs and enabled keys; plain packs
InitRooms ==
  /\ mx \in
       [userEmotes : {Undefined} \cup {AccountData(c) : c \in SimpleContents("mxc://p")},
        emoteRooms : EmoteRoomsData,
        rooms : {f \in [RoomIds -> {Null} \cup SimpleRooms] :
                   /\ f["!r1"] # Null
                   /\ \A rid \in RoomIds : f[rid] # Null => f[rid].roomId = rid}]
  /\ room = mx.rooms["!r1"]

\* a personal pack, a room pack and an enabled pack of another room; packs of
\* every kind
InitPacks ==
  /\ \E p \in {Undefined} \cup {AccountData(c) : c \in RichContents("mxc://p")},
        r \in RichContents(MxcOf("!r1", "k1")),
        e \in RichContents(MxcOf("!r2", "k1")) :
       mx = [userEmotes |-> p,
             emoteRooms |-> EmoteRooms(Val(<<
               [roomId |-> "!r2", keyObjects |-> [t |-> "val", keys |-> <<"k1">>]] >>)),
             rooms |-> [rid \in RoomIds |->
                          Room(rid, << StateEvent(rid, "k1",
                                         IF rid = "!r1" THEN r ELSE e) >>)]]
  /\ room = mx.rooms["!r1"]

InitResolver ==
  /\ op = "none"
  /\ rawPack = Undefined
  /\ ret = Undefined
  /\ (InitRooms \/ InitPacks)
  /\ NoProfile
  /\ NoSettings

GetUserImagePack ==
  /\ op = "none"
  /\ op' = "getUserImagePack"
  /\ ret' = getUserImagePack(mx)
  /\ UNCHANGED <<rawPack, room, mx, profileVars, settingsVars>>

GetPacksInRoom ==
  /\ op = "none"
  /\ op' = "getPacksInRoom"
  /\ ret' = getPacksInRoom(room)
  /\ UNCHANGED <<rawPack, room, mx, profileVars, settingsVars>>

GetFromImagePackRooms ==
  /\ op = "none"
  /\ op' = "getFromImagePackRooms"
  /\ ret' = getFromImagePackRooms(mx)
  /\ UNCHANGED <<rawPack, room, mx, profileVars, settingsVars>>

GetRelevantPacks ==
  /\ op = "none"
  /\ op' = "getRelevantPacks"
  /\ ret' = getRelevantPacks(mx, room)
  /\ UNCHANGED <<rawPack, room, mx, profileVars, settingsVars>>

GetShortcodeToEmoji ==
  /\ op = "none"
  /\ op' = "getShortcodeToEmoji"
  /\ ret' = getShortcodeToEmoji(mx, room)
  /\ UNCHANGED <<rawPack, room, mx, profileVars, settingsVars>>

GetEmojiForCompletion ==
  /\ op = "none"
  /\ op' = "getEmojiForCompletion"
  /\ ret' = getEmojiForCompletion(mx, room)
  /\ UNCHANGED <<rawPack, room, mx, profileVars, settingsVars>>

NextResolver ==
  \/ GetUserImagePack
  \/ GetPacksInRoom
  \/ GetFromImagePackRooms
  \/ GetRelevantPacks
  \/ GetShortcodeToEmoji
  \/ GetEmojiForCompletion

SpecResolver == InitResolver /\ [][NextResolver]_vars

----------------------------------------------------------------------------
\* parsePack applied to one raw event

InitParse ==
  /\ op = "none"
  /\ rawPack \in RawPacks
  /\ room \in FallbackRooms
  /\ mx = NoClient
  /\ ret = Undefined
  /\ NoProfile
  /\ NoSettings

ParsePack ==
  /\ op = "none"
  /\ op' = "parsePack"
  /\ ret' = parsePack(rawPack, room)
  /\ UNCHANGED <<rawPack, room, mx, profileVars, settingsVars>>

NextParse == ParsePack

SpecParse == InitParse /\ [][NextParse]_vars

----------------------------------------------------------------------------
\* Properties of the resolver

Range(s) == {s[i] : i \in 1..Len(s)}

\* the place of i among the members of S, counted from 1
Rank(S, i) == Cardinality({j \in S : j <= i})

EventIdOf(pack) == pack.event.event_id

\* personal pack, then room-local packs, then enabled packs of the pack rooms
C1_Concatenation ==
  LET user == getUserImagePack(mx)
  IN (IF user.t = "ImagePack" THEN <<user>> ELSE <<>>)
       \o getPacksInRoom(room).v \o getFromImagePackRooms(mx).v

FirstOccurrences(packs) ==
  {i \in 1..Len(packs) :
     \A j \in 1..(i - 1) : EventIdOf(packs[j]) # EventIdOf(packs[i])}

\* C1: the list getRelevantPacks returns holds no event id twice, and is the
\* concatenation (personal, room, pack rooms) cut down to the first occurrence
\* of every event id, in the concatenation's order.
C1_Deduplicated ==
  (op = "getRelevantPacks" /\ ret # Throw) =>
    LET concatenation == C1_Concatenation
        first == FirstOccurrences(concatenation)
    IN /\ \A a, b \in 1..Len(ret.v) :
            EventIdOf(ret.v[a]) = EventIdOf(ret.v[b]) => a = b
       /\ Len(ret.v) = Cardinality(first)
       /\ \A i \in first : ret.v[Rank(first, i)] = concatenation[i]

\* a pack of the room is also enabled as a pack-room pack and is dropped once
C1_Witness ==
  /\ op = "getRelevantPacks"
  /\ ret # Throw
  /\ Len(ret.v) >= 3
  /\ Len(C1_Concatenation) > Len(ret.v)
  /\ EventIdOf(ret.v[1]) = Undefined

Defines(pack, sc) ==
  \E i \in 1..Len(pack.images) : pack.images[i].shortcode = sc

DefinitionIn(pack, sc) ==
  pack.images[CHOOSE i \in 1..Len(pack.images) : pack.images[i].shortcode = sc]

DefinesEmoji(pack, sc) ==
  \E i \in 1..Len(pack.images) :
    /\ pack.images[i].shortcode = sc
    /\ "emoticon" \in Range(pack.images[i].usage.v)

Aliases(e) ==
  IF e.shortcodes.t = "array" THEN Range(e.shortcodes.v) ELSE {e.shortcodes.v}

IsStandard(e) == "unicode" \in DOMAIN e

AllShortcodes == Shortcodes \cup UNION {Aliases(emojis[k]) : k \in 1..Len(emojis)}

\* C2 as claimed: the first pack in getRelevantPacks order that defines a
\* shortcode owns its key in getShortcodeToEmoji.
C2_FirstDefiningPackOwnsKey ==
  (op = "getShortcodeToEmoji" /\ ret # Throw) =>
    LET packs == getRelevantPacks(mx, room).v
    IN \A sc \in AllShortcodes : \A k \in 1..Len(packs) :
         (/\ Defines(packs[k], sc)
          /\ \A j \in 1..(k - 1) : ~Defines(packs[j], sc))
         => /\ MapHas(ret.v, sc)
            /\ ~IsStandard(MapGet(ret.v, sc))
            /\ MapGet(ret.v, sc) = DefinitionIn(packs[k], sc)

\* C2, amended: the first pack in getRelevantPacks order that defines a
\* shortcode as an emoji (usage "emoticon") owns its key, over the later packs
\* and the standard emoji; a shortcode no pack defines as an emoji stays with
\* the standard emoji that declares it, if there is one.
C2_FirstEmojiPackOwnsKey ==
  (op = "getShortcodeToEmoji" /\ ret # Throw) =>
    LET packs == getRelevantPacks(mx, room).v
    IN \A sc \in AllShortcodes :
         IF \E k \in 1..Len(packs) : DefinesEmoji(packs[k], sc)
         THEN \A k \in 1..Len(packs) :
                (/\ DefinesEmoji(packs[k], sc)
                 /\ \A j \in 1..(k - 1) : ~DefinesEmoji(packs[j], sc))
                => /\ MapHas(ret.v, sc)
                   /\ ~IsStandard(MapGet(ret.v, sc))
                   /\ MapGet(ret.v, sc) = DefinitionIn(packs[k], sc)
         ELSE IF \E n \in 1..Len(emojis) : sc \in Aliases(emojis[n])
              THEN /\ MapHas(ret.v, sc)
                   /\ IsStandard(MapGet(ret.v, sc))
                   /\ sc \in Aliases(MapGet(ret.v, sc))
              ELSE ~MapHas(ret.v, sc)

\* personal, room and pack-room pack all define :x: as an emoji
C2_Witness ==
  /\ op = "getShortcodeToEmoji"
  /\ ret # Throw
  /\ LET packs == getRelevantPacks(mx, room).v
     IN /\ Len(packs) = 3
        /\ \A k \in 1..3 : DefinesEmoji(packs[k], "x")
        /\ EventIdOf(packs[1]) = Undefined
        /\ MapGet(ret.v, "x") = DefinitionIn(packs[1], "x")
        /\ MapGet(ret.v, "x") # DefinitionIn(packs[2], "x")

\* the shortcodes the relevant packs define as emoji
CustomShortcodes(packs) ==
  {sc \in Shortcodes : \E k \in 1..Len(packs) : DefinesEmoji(packs[k], sc)}

C3_CustomShortcodes == CustomShortcodes(getRelevantPacks(mx, room).v)

PlaceInTable(e) == CHOOSE k \in 1..Len(emojis) : emojis[k].shortcode = e.shortcode

C3_StandardFirstInOrder ==
  \A i, j \in 1..Len(ret.v) :
    /\ (IsStandard(ret.v[i]) /\ ~IsStandard(ret.v[j])) => i < j
    /\ (IsStandard(ret.v[i]) /\ IsStandard(ret.v[j]) /\ i < j)
         => PlaceInTable(ret.v[i]) < PlaceInTable(ret.v[j])

\* every shortcode an entry answers to: a standard emoji's aliases, a custom
\* emoji's shortcode
C3_ShortcodesOf(e) == IF IsStandard(e) THEN Aliases(e) ELSE {e.shortcode}

\* C3 as claimed, a standard emoji being shadowed when a custom emoji has one
\* of its shortcodes: the length is (standard - shadowed) + distinct custom
\* shortcodes, standard emoji come first and in table order, and no shortcode
\* belongs to two entries.
C3_EveryShortcodeOnce ==
  (op = "getEmojiForCompletion" /\ ret # Throw) =>
    LET custom == C3_CustomShortcodes
        shadowed == {k \in 1..Len(emojis) : Aliases(emojis[k]) \cap custom # {}}
    IN /\ Len(ret.v) = (Len(emojis) - Cardinality(shadowed)) + Cardinality(custom)
       /\ C3_StandardFirstInOrder
       /\ \A i, j \in 1..Len(ret.v) :
            C3_ShortcodesOf(ret.v[i]) \cap C3_ShortcodesOf(ret.v[j]) # {} => i = j

\* C3, amended: a standard emoji is shadowed when a custom emoji has its first
\* shortcode (the `shortcode` field); with that, the length is (standard -
\* shadowed) + distinct custom emoji shortcodes, standard emoji come first and
\* in table order, and no two entries have the same `shortcode`.
C3_EveryFirstShortcodeOnce ==
  (op = "getEmojiForCompletion" /\ ret # Throw) =>
    LET custom == C3_CustomShortcodes
        shadowed == {k \in 1..Len(emojis) : emojis[k].shortcode \in custom}
    IN /\ Len(ret.v) = (Len(emojis) - Cardinality(shadowed)) + Cardinality(custom)
       /\ C3_StandardFirstInOrder
       /\ \A k \in 1..Len(emojis) :
            k \notin shadowed =>
              \E i \in 1..Len(ret.v) :
                IsStandard(ret.v[i]) /\ ret.v[i].unicode = emojis[k].unicode
       /\ \A i, j \in 1..Len(ret.v) :
            ret.v[i].shortcode = ret.v[j].shortcode => i = j

\* a custom :smile: shadows the standard one, beside a custom :x:
C3_Witness ==
  /\ op = "getEmojiForCompletion"
  /\ ret # Throw
  /\ C3_CustomShortcodes = {"smile", "x"}
  /\ Len(ret.v) = 4
  /\ IsStandard(ret.v[1]) /\ IsStandard(ret.v[2])
  /\ ~IsStandard(ret.v[3]) /\ ~IsStandard(ret.v[4])

\* C4 as claimed: no resolver operation throws, whatever the data.
C4_NeverThrows == ret # Throw

\* the pack-room entries of the account data (none when it is absent)
C6_Entries ==
  IF mx.emoteRooms.t = "val" /\ mx.emoteRooms.event.content.rooms.t = "val"
  THEN mx.emoteRooms.event.content.rooms.v
  ELSE <<>>

\* (k, i): the i-th pack event of the loaded room of entry k is a pack and its
\* state key is enabled in entry k
C6_Enabled ==
  LET entries == C6_Entries
  IN {h \in (1..Len(entries)) \X (1..Cardinality(StateKeys)) :
        LET e == entries[h[1]]
            r == mx.rooms[e.roomId]
        IN /\ r.t = "val"
           /\ h[2] <= Len(r.stateEvents)
           /\ parsePack(r.stateEvents[h[2]], r).t = "ImagePack"
           /\ r.stateEvents[h[2]].state_key.v \in Range(e.keyObjects.keys)}

\* the pack of the event that h = (k, i) names
C6_PackAt(h) ==
  LET r == mx.rooms[C6_Entries[h[1]].roomId]
  IN parsePack(r.stateEvents[h[2]], r)

\* C6: getFromImagePackRooms returns exactly the packs of the loaded rooms
\* listed in im.ponies.emote_rooms whose state key is enabled for their room,
\* each once, nothing for a room that is not loaded, and the empty list when
\* there is no such account data.
C6_OnlyEnabledPacks ==
  (op = "getFromImagePackRooms" /\ ret # Throw) =>
    LET enabled == C6_Enabled
    IN /\ mx.emoteRooms.t # "val" => ret.v = <<>>
       /\ Len(ret.v) = Cardinality(enabled)
       /\ \A h \in enabled : \E i \in 1..Len(ret.v) : ret.v[i] = C6_PackAt(h)
       /\ \A i \in 1..Len(ret.v) : \E h \in enabled : ret.v[i] = C6_PackAt(h)

\* the room has packs under k1 and k2, only k1 is enabled; another listed room
\* is not loaded
C6_Witness ==
  /\ op = "getFromImagePackRooms"
  /\ ret # Throw
  /\ Len(C6_Entries) = 2
  /\ \E k \in 1..2 :
       /\ C6_Entries[k].roomId = "!r1"
       /\ C6_Entries[k].keyObjects = [t |-> "val", keys |-> <<"k1">>]
  /\ mx.rooms["!r2"] = Null
  /\ Len(getPacksInRoom(mx.rooms["!r1"]).v) = 2
  /\ Len(ret.v) = 1
  /\ ret.v[1].event.state_key = Val("k1")

----------------------------------------------------------------------------
\* Properties of RoomProfile

\* the component is torn down: it is removed and its effect cleanup has run
TornDown == ~alive /\ effectRoomId = NoEffect

\* C7: once the component is torn down (its effect cleanup has run), nothing
\* gives setStatus a value: no result of a setRoomName or setRoomTopic call in
\* flight, and no "Saving room topic..." step, changes the status.
C7_NoStatusAfterUnmount == [][TornDown => status' = status]_vars

\* calls that were in flight when the cleanup ran have settled, one by its
\* result and one by its failure, and both were discarded
C7_Witness ==
  /\ TornDown
  /\ \E i \in 1..Len(calls) : calls[i].pc = "done" /\ ~calls[i].applied
  /\ \E i \in 1..Len(calls) : calls[i].pc = "caught" /\ ~calls[i].applied

\* C8 as claimed: a failed setRoomName or setRoomTopic becomes an ERROR status
\* with the failure's message or 'Unable to save.' (while the component is
\* mounted and no effect is pending whose cleanup resets the status), and no
\* failure of sendStateEvent leaves handleAvatarUpload.
C8_FailuresCaught ==
  [][/\ \A i \in 1..Len(calls) :
          (/\ InFlight(i)
           /\ calls'[i].pc = "caught"
           /\ isMountStore
           /\ ~EffectPending)
          => /\ status'.type = ERROR
             /\ status'.msg \in {Val("M_FORBIDDEN"), Val("Unable to save.")}
     /\ avatarUpload' # "rejected"]_vars

\* C10 as claimed: a step of a handleOnSubmit call made for another room than
\* the one the mounted component shows does not make the status SUCCESS or
\* ERROR.
C10_NoResultOfAnotherRoom ==
  [][\A i \in 1..Len(calls) :
       (/\ alive
        /\ InFlight(i)
        /\ calls'[i] # calls[i]
        /\ calls[i].room # roomId)
       => (status' = status \/ status'.type \notin {SUCCESS, ERROR})]_vars

----------------------------------------------------------------------------
\* Properties of parsePack

\* C5 as claimed: parsePack returns an ImagePack only for an event that
\* declares a non-empty images mapping, and null for every event whose images
\* mapping is missing or empty.
C5_PackOnlyOfNonEmptyImages ==
  op = "parsePack" =>
    LET nonEmpty == /\ rawPack.content.t = "val"
                    /\ rawPack.content.images.t = "val"
                    /\ rawPack.content.images.v # <<>>
    IN /\ ret.t = "ImagePack" => nonEmpty
       /\ ~nonEmpty => ret = Null

\* an entry has a media reference when its url is a non-empty string
HasMediaReference(entry) == entry.data.url.t = "val" /\ entry.data.url.v # ""

\* C9: the images of the parsed pack are the entries of the mapping that have
\* a media reference, in the mapping's order, with body defaulting to the
\* shortcode and usage to the pack's usage, itself defaulting to
\* ["emoticon", "sticker"].
C9_ImagesWithUrlKept ==
  (/\ op = "parsePack"
   /\ ret.t = "ImagePack"
   /\ rawPack.content.images.t = "val") =>
    LET entries == rawPack.content.images.v
        pack == rawPack.content.pack
        withUrl == {i \in 1..Len(entries) : HasMediaReference(entries[i])}
        packUsage == IF pack.t = "val" /\ pack.usage.t = "val"
                     THEN pack.usage ELSE Val(<<"emoticon", "sticker">>)
    IN /\ Len(ret.images) = Cardinality(withUrl)
       /\ \A i \in withUrl :
            LET image == ret.images[Rank(withUrl, i)]
                data == entries[i].data
            IN /\ image.shortcode = entries[i].shortcode
               /\ image.mxc = data.url
               /\ image.body = (IF data.body.t = "val" THEN data.body
                                ELSE Val(entries[i].shortcode))
               /\ image.usage = (IF data.usage.t = "val" THEN data.usage
                                 ELSE packUsage)

\* an entry without url is dropped before a sibling that is kept with the
\* defaults
C9_Witness ==
  /\ op = "parsePack"
  /\ ret.t = "ImagePack"
  /\ rawPack.content.images.t = "val"
  /\ rawPack.content.pack = Undefined
  /\ Len(rawPack.content.images.v) = 2
  /\ rawPack.content.images.v[1].data.url = Undefined
  /\ rawPack.content.images.v[2].data.body = Undefined
  /\ rawPack.content.images.v[2].data.usage = Undefined
  /\ Len(ret.images) = 1
  /\ ret.images[1].shortcode = rawPack.content.images.v[2].shortcode
  /\ ret.images[1].body = Val(ret.images[1].shortcode)
  /\ ret.images[1].usage = Val(<<"emoticon", "sticker">>)

----------------------------------------------------------------------------
\* Properties of RoomSettings

\* C11: once the effect cleanup of a RoomSettings instance has set mounted to
\* false and removed its listener, no step calls that instance's forceUpdate,
\* whatever the interleaving of toggle events, delayed refreshes and unmount
C11_NoForceUpdateAfterUnmount ==
  [][\A i \in 1..Len(settings) :
       ~settings[i].mounted =>
         settings'[i].forceUpdates = settings[i].forceUpdates]_vars

====
